---- MODULE Spec2Model ----
(***************************************************************************)
(* State-machine model of the MultiSig wallet of src/src/multisig.rs:      *)
(* construction (MultiSig::new), signature collection (add_signature),     *)
(* the threshold decision (is_valid) and the transaction submission        *)
(* (submit_transaction).                                                   *)
(*                                                                         *)
(* A signature value is modelled as the record [key, msg, nonce]: the key  *)
(* that produced it, the message it was computed over, and the nonce that  *)
(* was used (ECDSA yields a different signature value for every nonce).    *)
(* secp.verify_ecdsa(message, sig, pubkey) succeeds exactly when the       *)
(* signature was produced by pubkey's secret key over that message.        *)
(***************************************************************************)
EXTENDS Integers, Sequences, FiniteSets, TLC

\* ------------------------------------------------------------------ bounds
\* Longest Vec<PublicKey> handed to MultiSig::new.
MaxKeys == 3
\* Largest threshold handed to MultiSig::new.
MaxThreshold == 4
\* Longest signatures list the model lets add_signature build.
MaxSigs == 2

\* ---------------------------------------------------------------- universe
Keys == {"k1", "k2", "k3"}
Messages == {"m1", "m2"}
Nonces == {"n1", "n2"}
\* The keys whose holders sign in the model (tests/test.rs signs with sk1 and sk2
\* only); k3 can be registered but never produces a signature.
SigningKeys == {"k1", "k2"}
Sigs == [key : SigningKeys, msg : Messages, nonce : Nonces]
Addresses == {"0xabc", "not-an-address"}
NetOutcomes == {"sent", "refused"}

RECURSIVE SeqsUpTo(_, _)
SeqsUpTo(S, n) ==
    IF n = 0 THEN {<<>>}
    ELSE LET shorter == SeqsUpTo(S, n - 1)
         IN  shorter \cup {Append(q, x) : q \in shorter, x \in S}

KeyVecs == SeqsUpTo(Keys, MaxKeys)

\* ------------------------------------------------------------------- state
VARIABLES
    phase,       \* "unbuilt" | "ready" | "panicked" (the assert of new failed)
    signers,     \* MultiSig.signers : HashSet<PublicKey>
    signatures,  \* MultiSig.signatures : Vec<Signature>
    threshold,   \* MultiSig.threshold : usize
    issued,      \* history: is_valid has returned Ok(()) at least once
    submitted,   \* history: client().send_transaction has been invoked at least once
    result       \* the last call: [op, sig, message, ret, log]

vars == <<phase, signers, signatures, threshold, issued, submitted, result>>

\* ------------------------------------------------------- results and logs
Ok == <<"Ok">>
InvalidSignature == <<"Err", "InvalidSignature">>
ThresholdNotReached(n, t) == <<"Err", "ThresholdNotReached", n, t>>
TransactionFailed == <<"Err", "TransactionFailed">>
InvalidAddress == <<"Err", "InvalidAddress">>

LogDuplicate == "Duplicate signature. Signature already exists."
LogAdded == "Signature added successfully."
LogInvalid == "Failed to add signature: Invalid signature."
LogReached == "Valid signature threshold reached."
LogNotReached == "Threshold not reached"
LogSubmitted == "Transaction submitted successfully."
LogFailed == "Transaction failed"
NoLog == ""

NoSig == [key |-> "none", msg |-> "none", nonce |-> "none"]
NoResult == [op |-> "none", sig |-> NoSig, message |-> "none", ret |-> Ok, log |-> NoLog]

\* --------------------------------------------------------- pure functions
\* secp.verify_ecdsa(message, sig, pubkey).is_ok()
Verify(message, sig, pubkey) == sig.key = pubkey /\ sig.msg = message

\* A check that matches the key only and does not bind the message.
AnyVerifiesAnyMessage(keys, message, sig) == \E pubkey \in keys : sig.key = pubkey

\* self.signers.iter().any(|pubkey| secp.verify_ecdsa(message, sig, pubkey).is_ok())
AnyVerifies(keys, message, sig) == \E pubkey \in keys : Verify(message, sig, pubkey)

\* A duplicate check that never finds the signature.
ContainsNever(list, sig) == FALSE

\* self.signatures.contains(&sig)
Contains(list, sig) == \E i \in DOMAIN list : list[i] = sig

\* signers.into_iter().collect() : the HashSet of a Vec's elements
Collect(keyvec) == {keyvec[i] : i \in DOMAIN keyvec}

\* the assert! of MultiSig::new
ThresholdAccepted(t, keyvec) == t > 0 /\ t <= Len(keyvec)

\* valid_signatures of is_valid: stored signatures that verify under some signer
ValidSignaturesOf(list, keys, message) ==
    Cardinality({i \in DOMAIN list : AnyVerifies(keys, message, list[i])})

ValidSignatures(message) == ValidSignaturesOf(signatures, signers, message)

\* A threshold comparison that is off by one.
ThresholdReachedOffByOne(n, t) == n + 1 >= t

\* valid_signatures >= self.threshold
ThresholdReached(n, t) == n >= t

\* to.parse() of submit_transaction
ParsesAsAddress(to) == to = "0xabc"

\* ------------------------------------------------------------------ actions
Init ==
    /\ phase = "unbuilt"
    /\ signers = {}
    /\ signatures = <<>>
    /\ threshold = 0
    /\ issued = FALSE
    /\ submitted = FALSE
    /\ result = NoResult

\* MultiSig::new(signers, threshold, contract)
New(keyvec, t) ==
    /\ phase = "unbuilt"
    /\ IF ThresholdAccepted(t, keyvec)
       THEN /\ phase' = "ready"
            /\ signers' = Collect(keyvec)
            /\ signatures' = <<>>
            /\ threshold' = t
       ELSE /\ phase' = "panicked"
            /\ UNCHANGED <<signers, signatures, threshold>>
    /\ UNCHANGED <<issued, submitted, result>>

\* add_signature with the push moved in front of the validity check: a
\* signature that fails the check stays in the list.
AddSignaturePushesFirst(sig, message) ==
    /\ phase = "ready"
    /\ IF Contains(signatures, sig)
       THEN /\ result' = [op |-> "add_signature", sig |-> sig, message |-> message,
                          ret |-> Ok, log |-> LogDuplicate]
            /\ UNCHANGED signatures
       ELSE /\ Len(signatures) < MaxSigs
            /\ signatures' = Append(signatures, sig)
            /\ IF AnyVerifies(signers, message, sig)
               THEN result' = [op |-> "add_signature", sig |-> sig, message |-> message,
                               ret |-> Ok, log |-> LogAdded]
               ELSE result' = [op |-> "add_signature", sig |-> sig, message |-> message,
                               ret |-> InvalidSignature, log |-> LogInvalid]
    /\ UNCHANGED <<phase, signers, threshold, issued, submitted>>

\* MultiSig::add_signature(sig, message, secp)
AddSignature(sig, message) ==
    /\ phase = "ready"
    /\ IF Contains(signatures, sig)
       THEN /\ result' = [op |-> "add_signature", sig |-> sig, message |-> message,
                          ret |-> Ok, log |-> LogDuplicate]
            /\ UNCHANGED signatures
       ELSE IF AnyVerifies(signers, message, sig)
       THEN /\ Len(signatures) < MaxSigs
            /\ signatures' = Append(signatures, sig)
            /\ result' = [op |-> "add_signature", sig |-> sig, message |-> message,
                          ret |-> Ok, log |-> LogAdded]
       ELSE /\ result' = [op |-> "add_signature", sig |-> sig, message |-> message,
                          ret |-> InvalidSignature, log |-> LogInvalid]
            /\ UNCHANGED signatures
    /\ UNCHANGED <<phase, signers, threshold, issued, submitted>>

\* MultiSig::is_valid(message, secp)
IsValid(message) ==
    /\ phase = "ready"
    /\ LET valid_signatures == ValidSignatures(message)
       IN  IF ThresholdReached(valid_signatures, threshold)
           THEN /\ result' = [op |-> "is_valid", sig |-> NoSig, message |-> message,
                              ret |-> Ok, log |-> LogReached]
                /\ issued' = TRUE
           ELSE /\ result' = [op |-> "is_valid", sig |-> NoSig, message |-> message,
                              ret |-> ThresholdNotReached(valid_signatures, threshold),
                              log |-> LogNotReached]
                /\ UNCHANGED issued
    /\ UNCHANGED <<phase, signers, signatures, threshold, submitted>>

\* MultiSig::submit_transaction(to, value, data); net is the network's answer
SubmitTransaction(to, net) ==
    /\ phase = "ready"
    /\ IF ~ParsesAsAddress(to)
       THEN /\ result' = [op |-> "submit_transaction", sig |-> NoSig, message |-> "none",
                          ret |-> InvalidAddress, log |-> NoLog]
            /\ UNCHANGED submitted
       ELSE /\ submitted' = TRUE
            /\ IF net = "sent"
               THEN result' = [op |-> "submit_transaction", sig |-> NoSig,
                               message |-> "none", ret |-> Ok, log |-> LogSubmitted]
               ELSE result' = [op |-> "submit_transaction", sig |-> NoSig,
                               message |-> "none", ret |-> TransactionFailed,
                               log |-> LogFailed]
    /\ UNCHANGED <<phase, signers, signatures, threshold, issued>>

Next ==
    \/ phase = "unbuilt" /\ \E keyvec \in KeyVecs, t \in 0..MaxThreshold : New(keyvec, t)
    \/ \E sig \in Sigs, message \in Messages : AddSignature(sig, message)
    \/ \E message \in Messages : IsValid(message)
    \/ \E to \in Addresses, net \in NetOutcomes : SubmitTransaction(to, net)

Spec == Init /\ [][Next]_vars

TypeOK ==
    /\ phase \in {"unbuilt", "ready", "panicked"}
    /\ signers \subseteq Keys
    /\ threshold \in 0..MaxThreshold
    /\ issued \in BOOLEAN
    /\ submitted \in BOOLEAN
    /\ \A i \in DOMAIN signatures : signatures[i] \in Sigs

\* ------------------------------------------------- vocabulary of the claims
\* The outcomes of a submit, read off the branch add_signature took.
Accepted(r) == r.op = "add_signature" /\ r.ret = Ok /\ r.log = LogAdded
DuplicateIgnored(r) == r.op = "add_signature" /\ r.ret = Ok /\ r.log = LogDuplicate
UnknownSigner == <<"Err", "UnknownSigner">>

\* approved_count for a session message: the count is_valid compares with the
\* threshold.
ApprovedCount(message) == ValidSignatures(message)

\* The registered signers that have a valid signature over the message on record.
\* Every valid signature that is submitted is stored (or was stored already), so
\* these are the registered signers with at least one valid submitted signature.
DistinctSigners(message) ==
    {k \in signers : \E i \in DOMAIN signatures : Verify(message, signatures[i], k)}

\* is_authorized for some session message.
IsAuthorized == \E m \in Messages : ThresholdReached(ApprovedCount(m), threshold)

\* The step is a call of add_signature, with the arguments result' records.
AddStep == result'.op = "add_signature" /\ AddSignature(result'.sig, result'.message)
\* The step is a call of is_valid.
IsValidStep == result'.op = "is_valid" /\ IsValid(result'.message)

\* ------------------------------------------------------------------ claims

\* C1: in every reachable state, approved_count (the count compared with the
\* threshold) equals the number of distinct registered signers with a valid
\* signature over the session message, never the number of signature values.
C1_CountIsDistinctSigners ==
    phase = "ready" =>
        \A m \in Messages : ApprovedCount(m) = Cardinality(DistinctSigners(m))

\* C2: when a registered signer that already has a valid signature s1 on record
\* submits a different valid signature s2 over the same message, approved_count
\* does not rise again (s1 and s2 together count once).
C2_SecondSignatureOfSignerNotCounted ==
    [][AddStep =>
        LET s == result'.sig
            m == result'.message
        IN  (/\ s.key \in signers
             /\ Verify(m, s, s.key)
             /\ \E i \in DOMAIN signatures :
                    signatures[i] # s /\ Verify(m, signatures[i], s.key))
            => ValidSignaturesOf(signatures', signers', m) = ApprovedCount(m)]_vars

\* C3: the external submission (send_transaction) is invoked only in a state
\* where is_authorized holds, and only if it was not invoked before.
C3_SubmitOnlyAuthorizedAndOnce ==
    [][(result'.op = "submit_transaction" /\ result'.ret # InvalidAddress) =>
        (IsAuthorized /\ ~submitted)]_vars

\* C4: once the threshold check has succeeded (the token was issued), every
\* later threshold check fails with ThresholdNotReached, although the count
\* still meets the threshold.
C4_AuthorizationIssuedOnce ==
    [][(IsValidStep /\ issued) =>
        (Len(result'.ret) = 4 /\ result'.ret[2] = "ThresholdNotReached")]_vars

\* C5: a submit is Accepted only if the claimed signer (here: the key that made
\* the signature, the most favourable claim) is registered, the signature
\* verifies against the message under that key, and no approval is already
\* recorded for that signer.
C5_AcceptedOnlyFirstValidOfClaimedSigner ==
    [][(AddStep /\ Accepted(result')) =>
        LET s == result'.sig
            m == result'.message
            claimed == s.key
        IN  /\ claimed \in signers
            /\ Verify(m, s, claimed)
            /\ ~\E i \in DOMAIN signatures : Verify(m, signatures[i], claimed)]_vars

C7_BuildFailsIffOutOfRange ==
    [][(phase = "unbuilt" /\ phase' # "unbuilt") =>
        \A keyvec \in KeyVecs, t \in 0..MaxThreshold :
            New(keyvec, t) =>
                (phase' = "panicked" <=>
                    (keyvec = <<>> \/ t = 0 \/ t > Cardinality(Collect(keyvec))))]_vars

\* C8: every constructed wallet satisfies 0 < threshold <= |signers|.
C8_ThresholdWithinSigners ==
    phase = "ready" => (0 < threshold /\ threshold <= Cardinality(signers))

\* C9: submitting a signature made by a key that is not in the registry fails
\* with UnknownSigner and leaves approved_count unchanged.
C9_UnknownSignerReported ==
    [][AddStep =>
        LET s == result'.sig
            m == result'.message
        IN  s.key \notin signers =>
                /\ result'.ret = UnknownSigner
                /\ ValidSignaturesOf(signatures', signers', m) = ApprovedCount(m)]_vars

\* C10: submitting, for a registered claimed signer, a signature (not yet on
\* record) that does not verify against the message under that signer's key
\* fails with InvalidSignature and leaves approved_count unchanged, also when
\* the signature verifies under another registered key.
C10_InvalidForClaimedSignerRejected ==
    [][AddStep =>
        LET s == result'.sig
            m == result'.message
        IN  \A claimed \in signers :
                (~Contains(signatures, s) /\ ~Verify(m, s, claimed)) =>
                    /\ result'.ret = InvalidSignature
                    /\ ValidSignaturesOf(signatures', signers', m) = ApprovedCount(m)]_vars

\* C11: the status the threshold check reports is that of the k distinct
\* registered signers with a valid signature on record: it succeeds iff
\* k >= threshold and otherwise reports ThresholdNotReached(k, threshold).
C11_StatusCountsDistinctSigners ==
    result.op = "is_valid" =>
        LET m == result.message
            k == Cardinality(DistinctSigners(m))
        IN  IF k >= threshold
            THEN result.ret = Ok
            ELSE result.ret = ThresholdNotReached(k, threshold)

\* C12: a threshold check made while approved_count < threshold fails with
\* ThresholdNotReached(approved_count, threshold), carrying the current count
\* and the configured threshold; it never succeeds.
C12_BelowThresholdReportsCounts ==
    (result.op = "is_valid" /\ ApprovedCount(result.message) < threshold) =>
        result.ret = ThresholdNotReached(ApprovedCount(result.message), threshold)

\* C12 witness: is_valid has just failed with one valid signature of two needed.
C12_Witness ==
    /\ result.op = "is_valid"
    /\ threshold = 2
    /\ ApprovedCount(result.message) = 1
    /\ result.ret = ThresholdNotReached(1, 2)

\* is_authorized for one session message.
IsAuthorizedFor(message) == ThresholdReached(ApprovedCount(message), threshold)

\* C13: the session becomes Authorized exactly when the distinct-signer count
\* reaches the threshold, and Authorized is terminal: no step leads from an
\* authorized state to one that is not authorized.
C13_AuthorizedAtDistinctThresholdAndTerminal ==
    [][phase = "ready" =>
        \A m \in Messages :
            /\ IsAuthorizedFor(m) =>
                   ThresholdReached(ValidSignaturesOf(signatures', signers', m), threshold')
            /\ (/\ ~IsAuthorizedFor(m)
                /\ ThresholdReached(ValidSignaturesOf(signatures', signers', m), threshold'))
                   => Cardinality(DistinctSigners(m)') >= threshold']_vars

\* C14: two submits with valid signatures of two different signers are both
\* counted, and two submits for the same signer (over the same message; with
\* add_signature taking &mut self the calls run one after the other) never
\* both end Accepted.
C14_SameSignerNeverAcceptedTwice ==
    [][AddStep =>
        LET s == result'.sig
            m == result'.message
        IN  /\ (/\ Accepted(result) /\ result.message = m
                /\ result.sig.key # s.key
                /\ s.key \in signers /\ Verify(m, s, s.key)
                /\ ~Contains(signatures, s))
                   => /\ Accepted(result')
                      /\ ValidSignaturesOf(signatures', signers', m) = ApprovedCount(m) + 1
            /\ (/\ Accepted(result) /\ result.message = m
                /\ result.sig.key = s.key)
                   => ~Accepted(result')]_vars

C16_OnlyAcceptedMutatesApprovals ==
    [][phase = "ready" =>
        /\ ~(AddStep /\ Accepted(result')) => UNCHANGED <<signatures, signers, threshold>>
        /\ UNCHANGED <<signers, threshold>>]_vars

\* C16 witness: a submit has just failed with InvalidSignature while an
\* approval recorded earlier is still on record.
C16_Witness ==
    /\ result.op = "add_signature"
    /\ result.ret = InvalidSignature
    /\ Len(signatures) = 1
    /\ result.sig # signatures[1]

\* C17: the stored signatures list never holds the same signature value twice.
C17_NoEqualStoredSignatures ==
    \A i, j \in DOMAIN signatures : i # j => signatures[i] # signatures[j]

\* C17 witness: the list holds two signatures and a submit of one of them has
\* just been answered Ok by the duplicate check, without a push.
C17_Witness ==
    /\ Len(signatures) = 2
    /\ DuplicateIgnored(result)
    /\ Contains(signatures, result.sig)

\* C18: when the signatures on record were all added with the message the
\* threshold check is given, the valid-signature count of is_valid equals the
\* length of the stored list, and is_valid succeeds iff that length is at least
\* the threshold.
C18_SameMessageCountIsListLength ==
    (/\ result.op = "is_valid"
     /\ \A i \in DOMAIN signatures : signatures[i].msg = result.message) =>
        /\ ValidSignatures(result.message) = Len(signatures)
        /\ result.ret = Ok <=> Len(signatures) >= threshold
        /\ result.ret # Ok => result.ret = ThresholdNotReached(Len(signatures), threshold)

\* C18 witness: two signatures over the same message are on record and the
\* threshold check for that message has succeeded with threshold 2.
C18_Witness ==
    /\ result.op = "is_valid"
    /\ Len(signatures) = 2
    /\ \A i \in DOMAIN signatures : signatures[i].msg = result.message
    /\ threshold = 2
    /\ result.ret = Ok
====
